---- MODULE Spec2Model ----
(***************************************************************************)
(* tap-googleads: the stream catalog (tap.py), the stream classes          *)
(* (streams.py) and the run that drives them.  The stream classes and the  *)
(* catalog are translated from the source.  The base class GoogleAdsStream *)
(* (tap_googleads/client.py: request_records, post_process, start_date,    *)
(* end_date and the inherited traversal of parent and child streams) is    *)
(* not among the source files; it is modelled from the specification       *)
(* (sections 4.1, 4.5, 4.6, 5 and 7).                                      *)
(*                                                                         *)
(* Names.  A GAQL field such as campaign.id is the sequence of its         *)
(* segments <<"campaign", "id">>.  A flattened field name such as          *)
(* campaign__id is the sequence of its pieces with the separator between   *)
(* them, <<"campaign", "__", "id">>; customer_id is <<"customer_id">>.     *)
(***************************************************************************)
EXTENDS Integers, Sequences, FiniteSets, TLC

\* Rows the response to the hierarchy query may hold.
MaxHierarchyRows == 3
\* Rows the response to any other query may hold.
MaxRows == 2
\* API calls that fail over one run.
MaxFailures == 1
\* Largest performance_report_interval_days tried.
MaxLookback == 75
\* Days the wall clock may advance during a run.
MaxTicks == 1
\* The wall clock starts on one of these days (434 is 2024-03-10).
FirstDay == 425
LastDay == 436

None == "None"

(***************************************************************************)
(* streams.py: per stream class, the fields its query selects and its      *)
(* primary_keys.                                                           *)
(***************************************************************************)
AccessibleCustomers_primary_keys ==
    << <<"resource_names">> >>

CustomerHierarchyStream_select ==
    << <<"customer_client", "client_customer">>,
       <<"customer_client", "level">>,
       <<"customer_client", "manager">>,
       <<"customer_client", "descriptive_name">>,
       <<"customer_client", "currency_code">>,
       <<"customer_client", "time_zone">>,
       <<"customer_client", "id">> >>

CustomerHierarchyStream_primary_keys ==
    << <<"customer_client", "__", "id">> >>

GeotargetsStream_select ==
    << <<"geo_target_constant", "canonical_name">>,
       <<"geo_target_constant", "country_code">>,
       <<"geo_target_constant", "id">>,
       <<"geo_target_constant", "name">>,
       <<"geo_target_constant", "status">>,
       <<"geo_target_constant", "target_type">> >>

GeotargetsStream_primary_keys ==
    << <<"geo_target_constant", "__", "id">> >>

CampaignsStream_select ==
    << <<"campaign", "id">>,
       <<"campaign", "name">> >>

CampaignsStream_primary_keys ==
    << <<"campaign", "__", "id">> >>

AdGroupsStream_select ==
    << <<"ad_group", "url_custom_parameters">>,
       <<"ad_group", "type">>,
       <<"ad_group", "tracking_url_template">>,
       <<"ad_group", "targeting_setting", "target_restrictions">>,
       <<"ad_group", "target_roas">>,
       <<"ad_group", "target_cpm_micros">>,
       <<"ad_group", "status">>,
       <<"ad_group", "target_cpa_micros">>,
       <<"ad_group", "resource_name">>,
       <<"ad_group", "percent_cpc_bid_micros">>,
       <<"ad_group", "name">>,
       <<"ad_group", "labels">>,
       <<"ad_group", "id">>,
       <<"ad_group", "final_url_suffix">>,
       <<"ad_group", "excluded_parent_asset_field_types">>,
       <<"ad_group", "effective_target_roas_source">>,
       <<"ad_group", "effective_target_roas">>,
       <<"ad_group", "effective_target_cpa_source">>,
       <<"ad_group", "effective_target_cpa_micros">>,
       <<"ad_group", "display_custom_bid_dimension">>,
       <<"ad_group", "cpv_bid_micros">>,
       <<"ad_group", "cpm_bid_micros">>,
       <<"ad_group", "cpc_bid_micros">>,
       <<"ad_group", "campaign">>,
       <<"ad_group", "base_ad_group">>,
       <<"ad_group", "ad_rotation_mode">> >>

AdGroupsStream_primary_keys ==
    << <<"ad_group", "__", "id">>,
       <<"ad_group", "__", "campaign">>,
       <<"ad_group", "__", "status">> >>

AdsStream_select ==
    << <<"ad_group_ad", "ad", "type">>,
       <<"ad_group_ad", "ad", "resource_name">>,
       <<"ad_group_ad", "ad", "name">>,
       <<"ad_group_ad", "ad", "id">>,
       <<"campaign", "name">>,
       <<"campaign", "id">> >>

AdsStream_primary_keys ==
    << <<"campaign", "__", "id">>,
       <<"ad_group_ad", "__", "ad", "__", "id">> >>

AdsPerformance_select ==
    << <<"campaign", "name">>,
       <<"campaign", "id">>,
       <<"ad_group", "name">>,
       <<"ad_group", "id">>,
       <<"ad_group_ad", "ad", "name">>,
       <<"ad_group_ad", "ad", "id">>,
       <<"segments", "date">>,
       <<"metrics", "impressions">>,
       <<"metrics", "clicks">>,
       <<"metrics", "cost_micros">>,
       <<"metrics", "conversions">>,
       <<"metrics", "conversions_by_conversion_date">>,
       <<"metrics", "conversions_value">>,
       <<"metrics", "conversions_value_by_conversion_date">>,
       <<"metrics", "engagements">>,
       <<"metrics", "interactions">>,
       <<"metrics", "video_views">>,
       <<"metrics", "video_quartile_p25_rate">>,
       <<"metrics", "video_quartile_p50_rate">>,
       <<"metrics", "video_quartile_p75_rate">>,
       <<"metrics", "video_quartile_p100_rate">> >>

AdsPerformance_primary_keys ==
    << <<"campaign", "__", "id">>,
       <<"ad_group_ad", "__", "ad", "__", "id">>,
       <<"segments", "__", "date">> >>

AdGroupsPerformance_select ==
    << <<"campaign", "name">>,
       <<"campaign", "id">>,
       <<"ad_group", "name">>,
       <<"ad_group", "id">>,
       <<"segments", "date">>,
       <<"metrics", "impressions">>,
       <<"metrics", "clicks">>,
       <<"metrics", "cost_micros">>,
       <<"metrics", "conversions">>,
       <<"metrics", "conversions_by_conversion_date">>,
       <<"metrics", "conversions_value">>,
       <<"metrics", "conversions_value_by_conversion_date">>,
       <<"metrics", "video_views">>,
       <<"metrics", "video_quartile_p100_rate">> >>

AdGroupsPerformance_primary_keys ==
    << <<"campaign", "__", "id">>,
       <<"ad_group", "__", "id">>,
       <<"segments", "__", "date">> >>

AdGroupsHourlyPerformance_select ==
    << <<"campaign", "name">>,
       <<"campaign", "id">>,
       <<"ad_group", "name">>,
       <<"ad_group", "id">>,
       <<"segments", "date">>,
       <<"segments", "hour">>,
       <<"metrics", "impressions">>,
       <<"metrics", "clicks">>,
       <<"metrics", "cost_micros">>,
       <<"metrics", "conversions">>,
       <<"metrics", "conversions_by_conversion_date">>,
       <<"metrics", "conversions_value">>,
       <<"metrics", "conversions_value_by_conversion_date">>,
       <<"metrics", "video_views">>,
       <<"metrics", "video_quartile_p100_rate">> >>

AdGroupsHourlyPerformance_primary_keys ==
    << <<"campaign", "__", "id">>,
       <<"ad_group", "__", "id">>,
       <<"segments", "__", "date">>,
       <<"segments", "__", "hour">> >>

CampaignPerformance_select ==
    << <<"campaign", "name">>,
       <<"campaign", "id">>,
       <<"campaign", "status">>,
       <<"segments", "device">>,
       <<"segments", "date">>,
       <<"metrics", "impressions">>,
       <<"metrics", "clicks">>,
       <<"metrics", "ctr">>,
       <<"metrics", "average_cpc">>,
       <<"metrics", "cost_micros">>,
       <<"metrics", "conversions">>,
       <<"metrics", "conversions_by_conversion_date">>,
       <<"metrics", "conversions_value">>,
       <<"metrics", "conversions_value_by_conversion_date">>,
       <<"metrics", "video_views">>,
       <<"metrics", "video_quartile_p100_rate">> >>

CampaignPerformance_primary_keys ==
    << <<"campaign", "__", "name">>,
       <<"campaign", "__", "status">>,
       <<"segments", "__", "date">>,
       <<"segments", "__", "device">> >>

CampaignHourlyPerformance_select ==
    << <<"campaign", "name">>,
       <<"campaign", "id">>,
       <<"campaign", "status">>,
       <<"segments", "device">>,
       <<"segments", "date">>,
       <<"segments", "hour">>,
       <<"metrics", "impressions">>,
       <<"metrics", "clicks">>,
       <<"metrics", "ctr">>,
       <<"metrics", "average_cpc">>,
       <<"metrics", "cost_micros">>,
       <<"metrics", "conversions">>,
       <<"metrics", "conversions_by_conversion_date">>,
       <<"metrics", "conversions_value">>,
       <<"metrics", "conversions_value_by_conversion_date">>,
       <<"metrics", "video_views">>,
       <<"metrics", "video_quartile_p100_rate">> >>

CampaignHourlyPerformance_primary_keys ==
    << <<"campaign", "__", "name">>,
       <<"campaign", "__", "status">>,
       <<"segments", "__", "date">>,
       <<"segments", "__", "hour">>,
       <<"segments", "__", "device">> >>

CampaignPerformanceByAgeRangeAndDevice_select ==
    << <<"ad_group_criterion", "age_range", "type">>,
       <<"campaign", "name">>,
       <<"campaign", "status">>,
       <<"ad_group", "name">>,
       <<"segments", "date">>,
       <<"segments", "device">>,
       <<"ad_group_criterion", "system_serving_status">>,
       <<"ad_group_criterion", "bid_modifier">>,
       <<"metrics", "clicks">>,
       <<"metrics", "impressions">>,
       <<"metrics", "ctr">>,
       <<"metrics", "average_cpc">>,
       <<"metrics", "cost_micros">>,
       <<"campaign", "advertising_channel_type">> >>

CampaignPerformanceByAgeRangeAndDevice_primary_keys ==
    << <<"ad_group_criterion", "__", "age_range", "__", "type">>,
       <<"campaign", "__", "name">>,
       <<"segments", "__", "date">>,
       <<"campaign", "__", "status">>,
       <<"segments", "__", "device">> >>

CampaignPerformanceByGenderAndDevice_select ==
    << <<"ad_group_criterion", "gender", "type">>,
       <<"campaign", "name">>,
       <<"campaign", "status">>,
       <<"ad_group", "name">>,
       <<"segments", "date">>,
       <<"segments", "device">>,
       <<"ad_group_criterion", "system_serving_status">>,
       <<"ad_group_criterion", "bid_modifier">>,
       <<"metrics", "clicks">>,
       <<"metrics", "impressions">>,
       <<"metrics", "ctr">>,
       <<"metrics", "average_cpc">>,
       <<"metrics", "cost_micros">>,
       <<"campaign", "advertising_channel_type">> >>

CampaignPerformanceByGenderAndDevice_primary_keys ==
    << <<"ad_group_criterion", "__", "gender", "__", "type">>,
       <<"campaign", "__", "name">>,
       <<"segments", "__", "date">>,
       <<"campaign", "__", "status">>,
       <<"segments", "__", "device">> >>

CampaignPerformanceByLocation_select ==
    << <<"campaign_criterion", "location", "geo_target_constant">>,
       <<"campaign", "name">>,
       <<"campaign_criterion", "bid_modifier">>,
       <<"segments", "date">>,
       <<"metrics", "clicks">>,
       <<"metrics", "impressions">>,
       <<"metrics", "ctr">>,
       <<"metrics", "average_cpc">>,
       <<"metrics", "cost_micros">> >>

CampaignPerformanceByLocation_primary_keys ==
    << <<"campaign_criterion", "__", "location", "__", "geo_target_constant">>,
       <<"campaign", "__", "name">>,
       <<"segments", "__", "date">> >>

GeoPerformance_select ==
    << <<"campaign", "name">>,
       <<"campaign", "status">>,
       <<"segments", "date">>,
       <<"metrics", "clicks">>,
       <<"metrics", "cost_micros">>,
       <<"metrics", "impressions">>,
       <<"metrics", "conversions">>,
       <<"geographic_view", "location_type">>,
       <<"geographic_view", "country_criterion_id">> >>

GeoPerformance_primary_keys ==
    << <<"geographic_view", "__", "country_criterion_id">>,
       <<"customer_id">>,
       <<"campaign", "__", "name">>,
       <<"segments", "__", "date">> >>

AssetGroupPerformance_select ==
    << <<"customer", "id">>,
       <<"campaign", "id">>,
       <<"campaign", "name">>,
       <<"campaign", "status">>,
       <<"asset_group", "id">>,
       <<"asset_group", "name">>,
       <<"asset_group", "status">>,
       <<"metrics", "impressions">>,
       <<"metrics", "clicks">>,
       <<"metrics", "cost_micros">>,
       <<"metrics", "conversions">>,
       <<"metrics", "conversions_by_conversion_date">>,
       <<"metrics", "conversions_value">>,
       <<"metrics", "conversions_value_by_conversion_date">>,
       <<"metrics", "interactions">>,
       <<"segments", "date">> >>

AssetGroupPerformance_primary_keys ==
    << <<"customer_id">>,
       <<"campaign", "__", "id">>,
       <<"asset_group", "__", "id">>,
       <<"segments", "__", "date">> >>

(***************************************************************************)
(* tap.py: the catalog.                                                    *)
(***************************************************************************)
\* The catalog with GeotargetsStream left out of the list.
STREAM_TYPES_without_geotargets ==
    << "CampaignsStream", "AdGroupsStream", "AdGroupsPerformance",
       "AdGroupsHourlyPerformance", "AccessibleCustomers", "CustomerHierarchyStream",
       "CampaignPerformance", "CampaignHourlyPerformance",
       "CampaignPerformanceByAgeRangeAndDevice", "CampaignPerformanceByGenderAndDevice",
       "CampaignPerformanceByLocation", "GeoPerformance" >>

STREAM_TYPES ==
    << "CampaignsStream",
       "AdGroupsStream",
       "AdGroupsPerformance",
       "AdGroupsHourlyPerformance",
       "AccessibleCustomers",
       "CustomerHierarchyStream",
       "CampaignPerformance",
       "CampaignHourlyPerformance",
       "CampaignPerformanceByAgeRangeAndDevice",
       "CampaignPerformanceByGenderAndDevice",
       "CampaignPerformanceByLocation",
       "GeotargetsStream",
       "GeoPerformance" >>

\* discover_streams: one stream instance per class of STREAM_TYPES, in order.
discover_streams ==
    [i \in 1..Len(STREAM_TYPES) |-> STREAM_TYPES[i]]

Registered ==
    {discover_streams[i] : i \in 1..Len(discover_streams)}

\* The classes of streams.py that derive from ReportsStream.
ReportsStream ==
    { "CampaignsStream", "AdGroupsStream", "AdsStream", "AdsPerformance",
      "AdGroupsPerformance", "AdGroupsHourlyPerformance", "CampaignPerformance",
      "CampaignHourlyPerformance", "CampaignPerformanceByAgeRangeAndDevice",
      "CampaignPerformanceByGenderAndDevice", "CampaignPerformanceByLocation",
      "GeoPerformance", "AssetGroupPerformance" }

StreamClasses ==
    {"AccessibleCustomers", "CustomerHierarchyStream", "GeotargetsStream"} \cup ReportsStream

\* CustomerHierarchyStream given one of the report streams as its parent.
CustomerHierarchyStream_parent_is_report ==
    "CampaignsStream"

CustomerHierarchyStream_parent_stream_type ==
    "AccessibleCustomers"

\* GeotargetsStream given the parent the report streams have.
GeotargetsStream_parent_is_hierarchy ==
    "CustomerHierarchyStream"

GeotargetsStream_parent_stream_type ==
    None

ReportsStream_parent_stream_type ==
    "CustomerHierarchyStream"

\* AccessibleCustomers sets no parent_stream_type.
parent_stream_type(cls) ==
    CASE cls = "CustomerHierarchyStream" -> CustomerHierarchyStream_parent_stream_type
      [] cls = "GeotargetsStream" -> GeotargetsStream_parent_stream_type
      [] cls \in ReportsStream -> ReportsStream_parent_stream_type
      [] OTHER -> None

\* The registered streams whose parent is cls, in catalog order.
child_streams(cls) ==
    SelectSeq(discover_streams, LAMBDA c : parent_stream_type(c) = cls)

\* The registered streams without a parent, in catalog order.
root_streams ==
    SelectSeq(discover_streams, LAMBDA c : parent_stream_type(c) = None)

gaql_select(cls) ==
    CASE cls = "CustomerHierarchyStream" -> CustomerHierarchyStream_select
      [] cls = "GeotargetsStream" -> GeotargetsStream_select
      [] cls = "CampaignsStream" -> CampaignsStream_select
      [] cls = "AdGroupsStream" -> AdGroupsStream_select
      [] cls = "AdsStream" -> AdsStream_select
      [] cls = "AdsPerformance" -> AdsPerformance_select
      [] cls = "AdGroupsPerformance" -> AdGroupsPerformance_select
      [] cls = "AdGroupsHourlyPerformance" -> AdGroupsHourlyPerformance_select
      [] cls = "CampaignPerformance" -> CampaignPerformance_select
      [] cls = "CampaignHourlyPerformance" -> CampaignHourlyPerformance_select
      [] cls = "CampaignPerformanceByAgeRangeAndDevice" ->
             CampaignPerformanceByAgeRangeAndDevice_select
      [] cls = "CampaignPerformanceByGenderAndDevice" ->
             CampaignPerformanceByGenderAndDevice_select
      [] cls = "CampaignPerformanceByLocation" -> CampaignPerformanceByLocation_select
      [] cls = "GeoPerformance" -> GeoPerformance_select
      [] cls = "AssetGroupPerformance" -> AssetGroupPerformance_select
      [] OTHER -> << >>

primary_keys(cls) ==
    CASE cls = "AccessibleCustomers" -> AccessibleCustomers_primary_keys
      [] cls = "CustomerHierarchyStream" -> CustomerHierarchyStream_primary_keys
      [] cls = "GeotargetsStream" -> GeotargetsStream_primary_keys
      [] cls = "CampaignsStream" -> CampaignsStream_primary_keys
      [] cls = "AdGroupsStream" -> AdGroupsStream_primary_keys
      [] cls = "AdsStream" -> AdsStream_primary_keys
      [] cls = "AdsPerformance" -> AdsPerformance_primary_keys
      [] cls = "AdGroupsPerformance" -> AdGroupsPerformance_primary_keys
      [] cls = "AdGroupsHourlyPerformance" -> AdGroupsHourlyPerformance_primary_keys
      [] cls = "CampaignPerformance" -> CampaignPerformance_primary_keys
      [] cls = "CampaignHourlyPerformance" -> CampaignHourlyPerformance_primary_keys
      [] cls = "CampaignPerformanceByAgeRangeAndDevice" ->
             CampaignPerformanceByAgeRangeAndDevice_primary_keys
      [] cls = "CampaignPerformanceByGenderAndDevice" ->
             CampaignPerformanceByGenderAndDevice_primary_keys
      [] cls = "CampaignPerformanceByLocation" -> CampaignPerformanceByLocation_primary_keys
      [] cls = "GeoPerformance" -> GeoPerformance_primary_keys
      [] cls = "AssetGroupPerformance" -> AssetGroupPerformance_primary_keys

Range(s) ==
    {s[i] : i \in DOMAIN s}

(***************************************************************************)
(* Dates.  A day is its number counted from 2023-01-01 (day 0); strftime   *)
(* turns it into the civil date <<year, month, day>> that "%Y-%m-%d"       *)
(* prints, by the Gregorian calendar.                                      *)
(***************************************************************************)
IsLeap(y) ==
    (y % 4 = 0 /\ y % 100 # 0) \/ y % 400 = 0

DaysInYear(y) ==
    IF IsLeap(y) THEN 366 ELSE 365

DaysInMonth(y, m) ==
    CASE m = 2 -> IF IsLeap(y) THEN 29 ELSE 28
      [] m \in {4, 6, 9, 11} -> 30
      [] OTHER -> 31

RECURSIVE civil(_, _, _)
civil(y, m, d) ==
    IF m = 1 /\ d >= DaysInYear(y) THEN civil(y + 1, 1, d - DaysInYear(y))
    ELSE IF d >= DaysInMonth(y, m) THEN civil(y, m + 1, d - DaysInMonth(y, m))
    ELSE <<y, m, d + 1>>

\* date.strftime("%Y-%m-%d")
strftime(day) ==
    civil(2023, 1, day)

\* "'" + text + "'"
Quote(text) ==
    <<"'", text, "'">>

\* The start date with the days added to now.
timedelta_start_date_added(now, cfg) ==
    Quote(strftime(now + cfg.performance_report_interval_days))

\* datetime.now() - timedelta(days=config.get("performance_report_interval_days")),
\* then strftime and the quotes (the same four lines in each class that computes
\* its own start date).
timedelta_start_date(now, cfg) ==
    Quote(strftime(now - cfg.performance_report_interval_days))

\* GoogleAdsStream.start_date and end_date, the properties the queries read as
\* self.start_date and self.end_date.
GoogleAdsStream_start_date(now, cfg) ==
    Quote(strftime(now - cfg.performance_report_interval_days))

GoogleAdsStream_end_date(now, cfg) ==
    Quote(strftime(now))

\* The classes whose gaql computes start_date itself.
ComputesStartDate ==
    { "AdsPerformance", "AdGroupsPerformance", "AdGroupsHourlyPerformance",
      "CampaignPerformance", "CampaignHourlyPerformance", "AssetGroupPerformance" }

\* The classes whose gaql reads self.start_date.
ReadsStartDate ==
    { "CampaignPerformanceByAgeRangeAndDevice", "CampaignPerformanceByGenderAndDevice",
      "CampaignPerformanceByLocation", "GeoPerformance" }

PerformanceReports ==
    ComputesStartDate \cup ReadsStartDate

\* The date range of the WHERE clause of cls.gaql, rendered at wall-clock day
\* `now`; None for a query without a date range.
gaql_where(cls, now, cfg) ==
    CASE cls \in ComputesStartDate ->
             [start_date |-> timedelta_start_date(now, cfg),
              end_date |-> GoogleAdsStream_end_date(now, cfg), now |-> now]
      [] cls \in ReadsStartDate ->
             [start_date |-> GoogleAdsStream_start_date(now, cfg),
              end_date |-> GoogleAdsStream_end_date(now, cfg), now |-> now]
      [] OTHER -> None

(***************************************************************************)
(* Rows and records.                                                       *)
(***************************************************************************)
AccountIds ==
    {"111", "222"}

\* A hierarchy row is the JSON object the code reads: customerClient with its
\* manager flag and id; a key the response leaves out is not in the DOMAIN.
NoFields ==
    [k \in {} |-> None]

CustomerClients ==
    [manager : BOOLEAN, id : AccountIds] \cup [manager : {FALSE}]

HierarchyRows ==
    {[customerClient |-> cc] : cc \in CustomerClients} \cup {NoFields}

\* The one object customers:listAccessibleCustomers answers with.
AccessibleRows ==
    {[resourceNames |-> names] : names \in {<< >>, <<"customers/222">>}}

\* Separator of the flattened names.
Sep ==
    "__"

RECURSIVE Flatten(_)
Flatten(path) ==
    IF Len(path) <= 1 THEN path
    ELSE <<Head(path), Sep>> \o Flatten(Tail(path))

\* The flattened names of the fields the query of cls selects.
FlatSelected(cls) ==
    {Flatten(f) : f \in Range(gaql_select(cls))}

\* A row of any other stream: the key that tells it from the other rows of the
\* response (its place in the response), and the selected fields the row holds no
\* value for.
RowKeys ==
    1..MaxRows

ReportRows(cls) ==
    [key : RowKeys, lacks : {{}, {Head(primary_keys(cls))}}]

\* The responses of up to n rows to the query of cls.
ReportResponses(cls, n) ==
    {r \in UNION {[1..k -> ReportRows(cls)] : k \in 0..n} :
        \A i \in 1..Len(r) : r[i].key = i}

\* The API's camelCase key in the snake case of the flattened names.
SnakeCase(key) ==
    CASE key = "resourceNames" -> "resource_names"
      [] key = "customerClient" -> "customer_client"
      [] key = "resourceName" -> "resource_name"
      [] key = "clientCustomer" -> "client_customer"
      [] key = "timeZone" -> "time_zone"
      [] key = "descriptiveName" -> "descriptive_name"
      [] key = "currencyCode" -> "currency_code"
      [] OTHER -> key

\* The flattened names a row of cls holds a value for.
FlatNames(cls, row) ==
    CASE cls = "AccessibleCustomers" -> {<<SnakeCase(k)>> : k \in DOMAIN row}
      [] cls = "CustomerHierarchyStream" ->
             IF "customerClient" \in DOMAIN row
             THEN {Flatten(<<SnakeCase("customerClient"), SnakeCase(k)>>) :
                      k \in DOMAIN row.customerClient}
             ELSE {}
      [] OTHER -> FlatSelected(cls) \ row.lacks

\* Identity derivation: the primary key can be read off the row.
HasIdentity(cls, row) ==
    \A k \in Range(primary_keys(cls)) : k \in FlatNames(cls, row)

(***************************************************************************)
(* streams.py: get_records and get_child_context.  One turn of the loop of *)
(* get_records on a row is [do, val]: "yield" the record val, "continue"   *)
(* with the next row, "raise" the exception val, or "return".              *)
(***************************************************************************)
\* GoogleAdsStream.post_process: the row as it is.
post_process(row, context) ==
    row

\* The loop without its manager test.
CustomerHierarchyStream_get_records_unfiltered(row, context) ==
    [do |-> "yield", val |-> post_process(row, context)]

\* The loop with break where the code has continue.
CustomerHierarchyStream_get_records_break(row, context) ==
    LET r == post_process(row, context) IN
    IF "customerClient" \notin DOMAIN r THEN [do |-> "raise", val |-> "KeyError"]
    ELSE IF "manager" \notin DOMAIN r.customerClient THEN [do |-> "raise", val |-> "KeyError"]
    ELSE IF r.customerClient.manager = TRUE THEN [do |-> "return", val |-> None]
    ELSE [do |-> "yield", val |-> r]

CustomerHierarchyStream_get_records(row, context) ==
    LET r == post_process(row, context) IN
    IF "customerClient" \notin DOMAIN r THEN [do |-> "raise", val |-> "KeyError"]
    ELSE IF "manager" \notin DOMAIN r.customerClient THEN [do |-> "raise", val |-> "KeyError"]
    ELSE IF r.customerClient.manager = TRUE THEN [do |-> "continue", val |-> None]
    ELSE [do |-> "yield", val |-> r]

\* The loop passing over the first row of the response.
CampaignPerformance_get_records_skipping(row, context) ==
    IF row.key = 1 THEN [do |-> "continue", val |-> None]
    ELSE [do |-> "yield", val |-> row]

CampaignPerformance_get_records(row, context) ==
    [do |-> "yield", val |-> row]

CampaignHourlyPerformance_get_records(row, context) ==
    [do |-> "yield", val |-> row]

\* GoogleAdsStream.get_records, which the other streams inherit.
GoogleAdsStream_get_records(row, context) ==
    [do |-> "yield", val |-> post_process(row, context)]

get_records(cls, row, context) ==
    CASE cls = "CustomerHierarchyStream" -> CustomerHierarchyStream_get_records(row, context)
      [] cls = "CampaignPerformance" -> CampaignPerformance_get_records(row, context)
      [] cls = "CampaignHourlyPerformance" -> CampaignHourlyPerformance_get_records(row, context)
      [] OTHER -> GoogleAdsStream_get_records(row, context)

\* except Exception as e: logging.error(...); raise.  What the handler of cls does
\* with an exception of request_records: the lines it logs, and whether the
\* exception leaves get_records.
\* The handler without its raise.
CampaignPerformance_except_swallow(e) ==
    [logged |-> {<<"Error fetching records for CampaignPerformance", e>>}, raises |-> FALSE]

CampaignPerformance_except(e) ==
    [logged |-> {<<"Error fetching records for CampaignPerformance", e>>}, raises |-> TRUE]

CampaignHourlyPerformance_except(e) ==
    [logged |-> {<<"Error fetching records for CampaignHourlyPerformance", e>>},
     raises |-> TRUE]

except(cls, e) ==
    CASE cls = "CampaignPerformance" -> CampaignPerformance_except(e)
      [] cls = "CampaignHourlyPerformance" -> CampaignHourlyPerformance_except(e)
      [] OTHER -> [logged |-> {}, raises |-> TRUE]

\* The context built from the discovered resource names.
AccessibleCustomers_get_child_context_discovered(record, context, cfg) ==
    [resourceNames |-> record.resourceNames]

AccessibleCustomers_get_child_context(record, context, cfg) ==
    [resourceNames |-> <<"customers/" \o cfg.customer_id>>]

\* The context built from the id of the record.
CustomerHierarchyStream_get_child_context_of_record(record, context, cfg) ==
    [customer_id |-> record.customerClient.id]

CustomerHierarchyStream_get_child_context(record, context, cfg) ==
    [customer_id |-> cfg.customer_id]

get_child_context(cls, record, context, cfg) ==
    CASE cls = "AccessibleCustomers" -> AccessibleCustomers_get_child_context(record, context, cfg)
      [] cls = "CustomerHierarchyStream" ->
             CustomerHierarchyStream_get_child_context(record, context, cfg)
      [] OTHER -> context

(***************************************************************************)
(* The run.                                                                *)
(***************************************************************************)
VARIABLES
    config,           \* customer_id and performance_report_interval_days
    today,            \* the wall clock's day
    ticks,            \* days the clock has advanced
    rendered,         \* per stream, the date range of the query it last rendered, if any
    stack,            \* the invocations in progress, the running one last
    roots,            \* the parentless streams still to run
    seen,             \* per stream, the contexts it was invoked with
    invocations,      \* per stream, how often it was invoked
    derivations,      \* per stream, how many child contexts it derived
    status,           \* per stream: "idle", "running", "done", "failed"
    errors,           \* per stream, the exception that ended it
    logged            \* the lines written with logging.error

vars ==
    <<config, today, ticks, rendered, stack, roots, seen, invocations, derivations,
      status, errors, logged>>

\* submit fails with one of these; a rejected query fails the call
\* before its first row, a transient error may end a response under way.
ApiErrors ==
    {"QueryError", "TransientError"}

SeqsUpTo(S, n) ==
    UNION {[1..k -> S] : k \in 0..n}

FailuresLeft ==
    MaxFailures - Cardinality({c \in StreamClasses : errors[c] \in ApiErrors})

\* What request_records may produce for cls: rows, then the end of the response
\* or an error.  customers:listAccessibleCustomers answers with one object.
Responses(cls) ==
    LET Rows(n) == CASE cls = "AccessibleCustomers" ->
                           IF n = 0 THEN {<< >>} ELSE [1..1 -> AccessibleRows]
                     [] cls = "CustomerHierarchyStream" -> SeqsUpTo(HierarchyRows, n)
                     [] OTHER -> ReportResponses(cls, n)
        n == CASE cls = "AccessibleCustomers" -> 1
               [] cls = "CustomerHierarchyStream" -> MaxHierarchyRows
               [] OTHER -> MaxRows
        ok == {[rows |-> r, error |-> None] : r \in Rows(n)}
        bad == IF FailuresLeft <= 0 THEN {}
               ELSE {[rows |-> << >>, error |-> "QueryError"]}
                    \cup {[rows |-> r, error |-> "TransientError"] : r \in Rows(n - 1)}
    IN ok \cup bad

(***************************************************************************)
(* An invocation in progress is a frame.  It first waits to submit its     *)
(* request ("request"), then reads the response row by row ("read"), then  *)
(* fans its records out to its children ("fanout").  A record is handed to *)
(* the sink as it is emitted and is not kept: what an invocation returned, *)
(* yielded and emitted is known while it reads, and the fan-out keeps the  *)
(* records it has still to derive a context from.                          *)
(***************************************************************************)
RequestFrame(cls, ctx) ==
    [node |-> cls, context |-> ctx, phase |-> "request"]

ReadFrame(cls, ctx, resp) ==
    [node |-> cls, context |-> ctx, phase |-> "read",
     returned |-> resp.rows,      \* the rows the API returns
     unread |-> resp.rows,        \* those get_records has not consumed
     error |-> resp.error,        \* the error that ends the response, or None
     yielded |-> << >>,           \* what get_records yielded
     emitted |-> << >>,           \* the records delivered to the sink
     identity_errors |-> << >>]   \* the rows skipped with an IdentityError

FanoutFrame(f) ==
    [node |-> f.node, context |-> f.context, phase |-> "fanout",
     unread |-> f.unread,
     records |-> IF child_streams(f.node) = << >> THEN << >> ELSE f.emitted,
     todo |-> << >>]

Top ==
    stack[Len(stack)]

SetTop(f) ==
    [stack EXCEPT ![Len(stack)] = f]

Pop ==
    SubSeq(stack, 1, Len(stack) - 1)

Init ==
    /\ config \in [customer_id : {"111"},
                   performance_report_interval_days : {MaxLookback}]
    /\ today = FirstDay
    /\ ticks = 0
    /\ rendered = [c \in StreamClasses |-> << >>]
    /\ stack = << >>
    /\ roots = root_streams
    /\ seen = [c \in StreamClasses |-> {}]
    /\ invocations = [c \in StreamClasses |-> 0]
    /\ derivations = [c \in StreamClasses |-> 0]
    /\ status = [c \in StreamClasses |-> "idle"]
    /\ errors = [c \in StreamClasses |-> None]
    /\ logged = {}

\* The next parentless stream is invoked, with no context.
sync_all ==
    /\ stack = << >>
    /\ roots # << >>
    /\ stack' = <<RequestFrame(Head(roots), None)>>
    /\ roots' = Tail(roots)
    /\ UNCHANGED <<config, today, ticks, rendered, seen, invocations, derivations,
                   status, errors, logged>>

\* The running stream builds its path (rendering its query) and submits it.
request_records ==
    /\ stack # << >>
    /\ Top.phase = "request"
    /\ \E resp \in Responses(Top.node) :
          stack' = SetTop(ReadFrame(Top.node, Top.context, resp))
    /\ rendered' = [rendered EXCEPT ![Top.node] =
                       IF Top.node \in PerformanceReports
                       THEN <<gaql_where(Top.node, today, config)>> ELSE << >>]
    /\ invocations' = [invocations EXCEPT ![Top.node] = @ + 1]
    /\ status' = [status EXCEPT ![Top.node] = "running"]
    /\ UNCHANGED <<config, today, ticks, roots, seen, derivations, errors, logged>>

\* The invocation of the running stream ends with exception e.
Fails(e) ==
    /\ status' = [status EXCEPT ![Top.node] = "failed"]
    /\ errors' = [errors EXCEPT ![Top.node] = e]
    /\ stack' = Pop

\* One turn of the loop of get_records on the next row, and what the run does with
\* a yielded row: it derives the row's identity and delivers the record, or skips
\* the row with an IdentityError.
next_row ==
    /\ stack # << >>
    /\ Top.phase = "read"
    /\ Top.unread # << >>
    /\ LET cls == Top.node
           turn == get_records(cls, Head(Top.unread), Top.context)
           read == [Top EXCEPT !.unread = Tail(@)]
       IN CASE turn.do = "yield" ->
                  /\ stack' = SetTop(
                        IF HasIdentity(cls, turn.val)
                        THEN [read EXCEPT !.yielded = Append(@, turn.val),
                                          !.emitted = Append(@, turn.val)]
                        ELSE [read EXCEPT !.yielded = Append(@, turn.val),
                                          !.identity_errors = Append(@, turn.val)])
                  /\ UNCHANGED <<status, errors>>
            [] turn.do = "continue" ->
                  /\ stack' = SetTop(read)
                  /\ UNCHANGED <<status, errors>>
            [] turn.do = "raise" ->
                  Fails(turn.val)
            [] OTHER ->
                  /\ stack' = SetTop(FanoutFrame(read))
                  /\ UNCHANGED <<status, errors>>
    /\ UNCHANGED <<config, today, ticks, rendered, roots, seen, invocations,
                   derivations, logged>>

\* request_records is exhausted, or raises: the handler of the stream runs and the
\* exception leaves get_records, or the loop ends and the fan-out begins.
end_of_rows ==
    /\ stack # << >>
    /\ Top.phase = "read"
    /\ Top.unread = << >>
    /\ IF Top.error # None
       THEN LET h == except(Top.node, Top.error) IN
            /\ logged' = logged \cup h.logged
            /\ IF h.raises
               THEN Fails(Top.error)
               ELSE /\ stack' = SetTop(FanoutFrame(Top))
                    /\ UNCHANGED <<status, errors>>
       ELSE /\ stack' = SetTop(FanoutFrame(Top))
            /\ UNCHANGED <<status, errors, logged>>
    /\ UNCHANGED <<config, today, ticks, rendered, roots, seen, invocations,
                   derivations>>

\* The context of the next record is derived; the children not yet invoked with an
\* equal context are queued for it.
derive_context ==
    /\ stack # << >>
    /\ Top.phase = "fanout"
    /\ Top.todo = << >>
    /\ Top.records # << >>
    /\ LET cls == Top.node
           ctx == get_child_context(cls, Head(Top.records), Top.context, config)
           kids == SelectSeq(child_streams(cls), LAMBDA c : ctx \notin seen[c])
       IN /\ derivations' = [derivations EXCEPT ![cls] = @ + 1]
          /\ seen' = [c \in StreamClasses |->
                         IF c \in Range(kids) THEN seen[c] \cup {ctx} ELSE seen[c]]
          /\ stack' = SetTop([Top EXCEPT !.records = Tail(@),
                                !.todo = [i \in 1..Len(kids) |->
                                             [node |-> kids[i], context |-> ctx]]])
    /\ UNCHANGED <<config, today, ticks, rendered, roots, invocations, status,
                   errors, logged>>

\* The next queued child is invoked.
sync_child ==
    /\ stack # << >>
    /\ Top.phase = "fanout"
    /\ Top.todo # << >>
    /\ stack' = Append(SetTop([Top EXCEPT !.todo = Tail(@)]),
                       RequestFrame(Head(Top.todo).node, Head(Top.todo).context))
    /\ UNCHANGED <<config, today, ticks, rendered, roots, seen, invocations,
                   derivations, status, errors, logged>>

\* The running stream has nothing left to fan out: its invocation is complete.
finish ==
    /\ stack # << >>
    /\ Top.phase = "fanout"
    /\ Top.todo = << >>
    /\ Top.records = << >>
    /\ status' = [status EXCEPT ![Top.node] = "done"]
    /\ stack' = Pop
    /\ UNCHANGED <<config, today, ticks, rendered, roots, seen, invocations,
                   derivations, errors, logged>>

Next ==
    \/ sync_all
    \/ request_records
    \/ next_row
    \/ end_of_rows
    \/ derive_context
    \/ sync_child
    \/ finish

Spec ==
    Init /\ [][Next]_vars

RunDone ==
    stack = << >> /\ roots = << >>

(***************************************************************************)
(* The queries' date ranges, over the days and the intervals of the        *)
(* bounds: each class with a date range renders its query, in catalog      *)
(* order (the two unregistered classes last), while the clock may pass     *)
(* midnight.                                                               *)
(***************************************************************************)
PerformanceSeq ==
    SelectSeq(discover_streams, LAMBDA c : c \in PerformanceReports)
        \o <<"AdsPerformance", "AssetGroupPerformance">>

InitDate ==
    /\ config \in [customer_id : {"111"},
                   performance_report_interval_days : 0..MaxLookback]
    /\ today \in FirstDay..LastDay
    /\ ticks = 0
    /\ rendered = [c \in StreamClasses |-> << >>]
    /\ stack = << >>
    /\ roots = << >>
    /\ seen = [c \in StreamClasses |-> {}]
    /\ invocations = [c \in StreamClasses |-> 0]
    /\ derivations = [c \in StreamClasses |-> 0]
    /\ status = [c \in StreamClasses |-> "idle"]
    /\ errors = [c \in StreamClasses |-> None]
    /\ logged = {}

\* The next class evaluates its gaql property.
render_gaql ==
    /\ \E i \in 1..Len(PerformanceSeq) :
          /\ rendered[PerformanceSeq[i]] = << >>
          /\ \A j \in 1..(i - 1) : rendered[PerformanceSeq[j]] # << >>
          /\ rendered' = [rendered EXCEPT ![PerformanceSeq[i]] =
                             <<gaql_where(PerformanceSeq[i], today, config)>>]
    /\ UNCHANGED <<config, today, ticks, stack, roots, seen, invocations, derivations,
                   status, errors, logged>>

\* Midnight passes.
tick ==
    /\ ticks < MaxTicks
    /\ today' = today + 1
    /\ ticks' = ticks + 1
    /\ UNCHANGED <<config, rendered, stack, roots, seen, invocations, derivations,
                   status, errors, logged>>

NextDate ==
    \/ render_gaql
    \/ tick

SpecDate ==
    InitDate /\ [][NextDate]_vars

(***************************************************************************)
(* Properties.                                                             *)
(***************************************************************************)
Hierarchy ==
    "CustomerHierarchyStream"

Geotargets ==
    "GeotargetsStream"

\* The registered report streams.
ReportNodes ==
    Registered \cap ReportsStream

\* The places of the stack whose invocation is reading, or fanning out.
Reading ==
    {i \in 1..Len(stack) : stack[i].phase = "read"}

FanningOut ==
    {i \in 1..Len(stack) : stack[i].phase = "fanout"}

\* The rows get_records has taken from the response of a reading frame.
Consumed(f) ==
    SubSeq(f.returned, 1, Len(f.returned) - Len(f.unread))

IsManager(row) ==
    /\ "customerClient" \in DOMAIN row
    /\ "manager" \in DOMAIN row.customerClient
    /\ row.customerClient.manager = TRUE

\* The day number of a civil date, summed up from the calendar.
RECURSIVE DaysBeforeYear(_)
DaysBeforeYear(y) ==
    IF y <= 2023 THEN 0 ELSE DaysInYear(y - 1) + DaysBeforeYear(y - 1)

RECURSIVE DaysBeforeMonth(_, _)
DaysBeforeMonth(y, m) ==
    IF m <= 1 THEN 0 ELSE DaysInMonth(y, m - 1) + DaysBeforeMonth(y, m - 1)

DayNumber(date) ==
    DaysBeforeYear(date[1]) + DaysBeforeMonth(date[1], date[2]) + date[3] - 1

\* The order of "%Y-%m-%d" texts.
DateLE(a, b) ==
    \/ a[1] < b[1]
    \/ a[1] = b[1] /\ a[2] < b[2]
    \/ a[1] = b[1] /\ a[2] = b[2] /\ a[3] <= b[3]

IsQuotedDate(lit) ==
    /\ Len(lit) = 3
    /\ lit[1] = "'" /\ lit[3] = "'"
    /\ lit[2][2] \in 1..12
    /\ lit[2][3] \in 1..DaysInMonth(lit[2][1], lit[2][2])

\* C1. Fan-out deduplication: no registered report stream is ever invoked a second
\* time, and when the run is over and the hierarchy has derived N >= 1 contexts from
\* its N records, every registered report stream has been invoked exactly once.
C1_FanOutDeduplication ==
    /\ \A c \in ReportNodes : invocations[c] <= 1
    /\ (RunDone /\ derivations[Hierarchy] >= 1)
          => \A c \in ReportNodes : invocations[c] = 1

\* The run is over, the hierarchy derived a context from each of two or more
\* records, and every report stream ran once.
C1_Witness ==
    /\ RunDone
    /\ derivations[Hierarchy] >= 2
    /\ \A c \in ReportNodes : invocations[c] = 1

\* C2. Manager filtering: what the hierarchy's get_records has yielded is exactly
\* the rows read so far whose manager flag is false, one record for each and in
\* their order; no record delivered, and no record a context is still to be derived
\* from, has the manager flag set.
C2_ManagerFiltering ==
    /\ \A n \in Reading : stack[n].node = Hierarchy =>
          LET f == stack[n] IN
          /\ f.yielded = SelectSeq(Consumed(f), LAMBDA r : ~IsManager(r))
          /\ \A i \in 1..Len(f.emitted) : ~IsManager(f.emitted[i])
    /\ \A n \in FanningOut : stack[n].node = Hierarchy =>
          \A i \in 1..Len(stack[n].records) : ~IsManager(stack[n].records[i])

\* The hierarchy has read a manager's row and then the row of account 222, and has
\* yielded and delivered the second alone.
C2_Witness ==
    \E n \in Reading :
        LET f == stack[n] IN
        /\ f.node = Hierarchy
        /\ f.unread = << >>
        /\ f.returned = <<[customerClient |-> [manager |-> TRUE, id |-> "111"]],
                          [customerClient |-> [manager |-> FALSE, id |-> "222"]]>>
        /\ f.yielded = <<[customerClient |-> [manager |-> FALSE, id |-> "222"]]>>
        /\ f.emitted = f.yielded

\* What a reading invocation has delivered is what its get_records yielded and an
\* identity could be derived for.
DeliversItsOutput(f) ==
    f.emitted = SelectSeq(f.yielded, LAMBDA r : HasIdentity(f.node, r))

\* C3. Fail-fast subtree starvation: once the hierarchy has failed with a
\* QueryError, no report stream is invoked (so none emits a record), neither
\* earlier nor later in the run; the targeting-constants stream is still invoked,
\* exactly once by the end of the run, and it delivers every row of its response.
C3_SubtreeStarvation ==
    errors[Hierarchy] = "QueryError" =>
        /\ \A c \in ReportNodes : invocations[c] = 0 /\ status[c] = "idle"
        /\ \A n \in 1..Len(stack) : stack[n].node \notin ReportNodes
        /\ RunDone => invocations[Geotargets] = 1 /\ status[Geotargets] # "idle"
        /\ \A n \in Reading : stack[n].node = Geotargets =>
               /\ stack[n].yielded = Consumed(stack[n])
               /\ DeliversItsOutput(stack[n])

\* The hierarchy has failed with a QueryError, and the targeting-constants stream
\* has read its two rows and delivered both.
C3_Witness ==
    /\ errors[Hierarchy] = "QueryError"
    /\ status[Hierarchy] = "failed"
    /\ \E n \in Reading :
          /\ stack[n].node = Geotargets
          /\ stack[n].unread = << >>
          /\ Len(stack[n].returned) = 2
          /\ stack[n].emitted = stack[n].returned

\* C4. Sibling isolation: a failure is fatal for the stream that fails (what
\* CampaignPerformance or CampaignHourlyPerformance logs, it raises: the stream
\* ends failed with the error logged) and for no other: its parent goes on, and at
\* the end of the run every other report stream has been invoked once and has ended
\* on its own account; a report stream reading its response delivers its output
\* whether or not a sibling has failed.
C4_SiblingIsolation ==
    /\ \A line \in logged :
          LET c == IF line[1] = "Error fetching records for CampaignPerformance"
                   THEN "CampaignPerformance" ELSE "CampaignHourlyPerformance"
          IN status[c] = "failed" /\ errors[c] = line[2]
    /\ \A c \in ReportNodes : status[c] = "failed" =>
          /\ errors[c] \in ApiErrors
          /\ status[Hierarchy] \in {"running", "done"}
          /\ status["AccessibleCustomers"] \in {"running", "done"}
          /\ RunDone => \A s \in ReportNodes \ {c} :
                 /\ invocations[s] = 1
                 /\ status[s] = "done" \/ (status[s] = "failed" /\ errors[s] \in ApiErrors)
    /\ \A n \in Reading : stack[n].node \in ReportNodes =>
          /\ stack[n].yielded = Consumed(stack[n])
          /\ DeliversItsOutput(stack[n])

\* CampaignPerformance has failed with a QueryError, and its later sibling
\* CampaignHourlyPerformance has read two rows and delivered both.
C4_Witness ==
    /\ status["CampaignPerformance"] = "failed"
    /\ errors["CampaignPerformance"] = "QueryError"
    /\ \E n \in Reading :
          /\ stack[n].node = "CampaignHourlyPerformance"
          /\ stack[n].unread = << >>
          /\ Len(stack[n].emitted) = 2

\* C7. The targeting-constants stream has no parent, is never invoked twice, and by
\* the end of the run has been invoked exactly once, whatever the hierarchy
\* returned.
C7_GeotargetsOncePerRun ==
    /\ parent_stream_type(Geotargets) = None
    /\ invocations[Geotargets] <= 1
    /\ RunDone => invocations[Geotargets] = 1

\* The run is over; the hierarchy completed without delivering a record (no row,
\* or managers' rows only), no report stream ran, and the targeting-constants
\* stream ran once.
C7_Witness ==
    /\ RunDone
    /\ status[Hierarchy] = "done"
    /\ derivations[Hierarchy] = 0
    /\ \A c \in ReportNodes : invocations[c] = 0
    /\ invocations[Geotargets] = 1
    /\ status[Geotargets] = "done"

\* C5. Date window: the date range every performance report renders holds two
\* quoted calendar dates; read back as day numbers, the start date is the day of
\* rendering minus performance_report_interval_days and the end date is the day of
\* rendering, and the start date is not after the end date; rendered on 2024-03-10
\* with an interval of 30 days the range is '2024-02-09' to '2024-03-10'.
C5_DateWindow ==
    \A c \in PerformanceReports : rendered[c] # << >> =>
        LET w == rendered[c][1]
            days == config.performance_report_interval_days
        IN /\ IsQuotedDate(w.start_date)
           /\ IsQuotedDate(w.end_date)
           /\ DayNumber(w.start_date[2]) = w.now - days
           /\ DayNumber(w.end_date[2]) = w.now
           /\ DateLE(w.start_date[2], w.end_date[2])
           /\ (w.now = 434 /\ days = 30) =>
                 /\ w.start_date = <<"'", <<2024, 2, 9>>, "'">>
                 /\ w.end_date = <<"'", <<2024, 3, 10>>, "'">>

\* On 2024-03-10, with an interval of 30 days, a class that computes its start date
\* and a class that reads self.start_date have both rendered their queries.
C5_Witness ==
    /\ config.performance_report_interval_days = 30
    /\ rendered["CampaignPerformance"] # << >>
    /\ rendered["CampaignPerformance"][1].now = 434
    /\ rendered["GeoPerformance"] # << >>
    /\ rendered["GeoPerformance"][1].now = 434

\* C6. Row-local identity failure (the claim as made): a row that lacks a field of
\* the primary key is skipped with an IdentityError, every other row is delivered,
\* and no row ends the invocation: a stream fails only with an error of the API.
C6_RowLocalIdentityFailure ==
    /\ \A n \in Reading :
          LET f == stack[n] IN
          /\ f.emitted = SelectSeq(f.yielded, LAMBDA r : HasIdentity(f.node, r))
          /\ f.identity_errors = SelectSeq(f.yielded, LAMBDA r : ~HasIdentity(f.node, r))
    /\ \A c \in StreamClasses : status[c] = "failed" => errors[c] \in ApiErrors

\* C8. Depth-first drain: every invocation under the running one is fanning out
\* and has no unread row, so no child starts while its parent has rows to read; a
\* fan-out, where contexts are derived, begins only when the response is read to
\* its end; each invocation above the lowest is a child of the one below it; and no
\* two streams with the same parent are in progress at once.
C8_DepthFirstDrain ==
    /\ \A n \in 1..(Len(stack) - 1) :
          /\ stack[n].phase = "fanout"
          /\ parent_stream_type(stack[n + 1].node) = stack[n].node
    /\ \A n \in FanningOut : stack[n].unread = << >>
    /\ \A c \in Registered : status[c] = "running" =>
          \A d \in Registered \ {c} : status[d] = "running" =>
              parent_stream_type(c) # parent_stream_type(d)

\* A report stream is reading its response while the hierarchy and the discovery
\* stream under it are fanning out, the hierarchy with a record still to derive a
\* context from.
C8_Witness ==
    /\ Len(stack) = 3
    /\ stack[3].phase = "read"
    /\ stack[3].unread # << >>
    /\ stack[2].node = Hierarchy
    /\ stack[2].records # << >>
    /\ stack[2].unread = << >>

\* C9. Primary-key presence (the claim as made): every field of the primary key of a
\* registered stream is the flattened name of a field its query selects (or, for the
\* discovery, its response carries), so a row that holds every selected field has a
\* value at each path of the primary key and is never skipped with an IdentityError.
C9_PrimaryKeyPresence ==
    LET Carried(c) == IF c = "AccessibleCustomers"
                      THEN {<<SnakeCase("resourceNames")>>}
                      ELSE FlatSelected(c)
    IN /\ \A c \in Registered : Range(primary_keys(c)) \subseteq Carried(c)
       /\ \A n \in Reading : stack[n].node \in ReportNodes \cup {Geotargets} =>
             \A i \in 1..Len(stack[n].identity_errors) :
                 stack[n].identity_errors[i].lacks # {}

\* C10. Context derivation does not read the parent's data: whatever the API
\* returned, every context the hierarchy was or is to be invoked with is the one
\* built from the configured customer_id, and so is every context of a report
\* stream.
C10_ContextFromConfiguration ==
    LET discovery == [resourceNames |-> <<"customers/" \o config.customer_id>>]
        account == [customer_id |-> config.customer_id]
        Expected(c) == IF c = Hierarchy THEN discovery ELSE account
    IN /\ \A c \in ReportNodes \cup {Hierarchy} : seen[c] \subseteq {Expected(c)}
       /\ \A n \in 1..Len(stack) :
             /\ stack[n].node \in ReportNodes \cup {Hierarchy} =>
                   stack[n].context = Expected(stack[n].node)
             /\ stack[n].phase = "fanout" =>
                   \A i \in 1..Len(stack[n].todo) :
                       stack[n].todo[i].context = Expected(stack[n].todo[i].node)

\* The discovery answered with the resource names of account 222 and the hierarchy
\* still holds the record of account 222, while the hierarchy ran with the context
\* of the configured account 111 and a report stream is running with it too.
C10_Witness ==
    /\ config.customer_id = "111"
    /\ Len(stack) = 3
    /\ stack[2].node = Hierarchy
    /\ stack[2].context = [resourceNames |-> <<"customers/111">>]
    /\ stack[2].records = <<[customerClient |-> [manager |-> FALSE, id |-> "222"]]>>
    /\ stack[3].context = [customer_id |-> "111"]
    /\ derivations[Hierarchy] >= 1

\* The parentless stream the parent relation leads to from cls in at most fuel
\* steps, or None when there is none that near.
RECURSIVE RootOf(_, _)
RootOf(cls, fuel) ==
    IF parent_stream_type(cls) = None THEN cls
    ELSE IF fuel = 0 THEN None
    ELSE RootOf(parent_stream_type(cls), fuel - 1)

\* C11. The registered catalog is a well-formed forest: from every registered stream
\* the parent relation leads, in fewer steps than there are streams, to a
\* parentless stream (so it has no cycle), and that root is the registered account
\* discovery or the registered targeting constants; every registered report stream
\* has the hierarchy as its parent; the parent of a registered stream is registered;
\* and in a run the lowest invocation is that of a registered root and every
\* invocation is that of a registered stream.
C11_CatalogIsForest ==
    /\ \A c \in Registered :
          /\ RootOf(c, Cardinality(Registered) - 1)
                \in Registered \cap {"AccessibleCustomers", Geotargets}
          /\ parent_stream_type(c) # None => parent_stream_type(c) \in Registered
    /\ \A c \in ReportNodes : parent_stream_type(c) = Hierarchy
    /\ Range(root_streams) = {"AccessibleCustomers", Geotargets}
    /\ \A c \in StreamClasses : invocations[c] > 0 => c \in Registered
    /\ stack # << >> => stack[1].node \in Range(root_streams)

\* The last registered report stream is about to submit its query, two steps of
\* the parent relation above the account discovery, before the targeting constants
\* have run.
C11_Witness ==
    /\ Len(stack) = 3
    /\ stack[1].node = "AccessibleCustomers"
    /\ stack[2].node = Hierarchy
    /\ stack[3].node = "GeoPerformance"
    /\ stack[3].phase = "request"
    /\ status[Geotargets] = "idle"

\* a can be had from b by leaving rows out, the rest keeping their order.
RECURSIVE IsSubsequence(_, _)
IsSubsequence(a, b) ==
    IF a = << >> THEN TRUE
    ELSE IF b = << >> THEN FALSE
    ELSE IF Head(a) = Head(b) THEN IsSubsequence(Tail(a), Tail(b))
    ELSE IsSubsequence(a, Tail(b))

\* C12. Order preservation within a node: what an invocation has yielded, and what
\* of it has been delivered, is a subsequence of the rows the API returned, in their
\* order.  The hierarchy has yielded exactly the non-manager rows among those it has
\* read, all of them once the response is read to its end.  Any other stream has
\* yielded every row it has read, as it was returned, each once and in its place,
\* and the whole response once it is read to its end.
C12_OrderPreservation ==
    \A n \in Reading :
        LET f == stack[n] IN
        /\ IsSubsequence(f.yielded, f.returned)
        /\ IsSubsequence(f.emitted, f.yielded)
        /\ IsSubsequence(f.emitted, f.returned)
        /\ f.node = Hierarchy =>
              /\ f.yielded = SelectSeq(Consumed(f), LAMBDA r : ~IsManager(r))
              /\ f.unread = << >> =>
                    f.yielded = SelectSeq(f.returned, LAMBDA r : ~IsManager(r))
        /\ f.node \in ReportNodes \cup {Geotargets} =>
              /\ Len(f.yielded) = Len(f.returned) - Len(f.unread)
              /\ \A i \in 1..Len(f.yielded) : f.yielded[i] = f.returned[i]
              /\ \A i \in 1..Len(f.yielded) : f.yielded[i].key = i
              /\ f.unread = << >> => f.yielded = f.returned

\* CampaignPerformance has read a response of two rows to its end and has yielded
\* and delivered the first and then the second.
C12_Witness ==
    \E n \in Reading :
        LET f == stack[n] IN
        /\ f.node = "CampaignPerformance"
        /\ f.unread = << >>
        /\ f.returned = <<[key |-> 1, lacks |-> {}], [key |-> 2, lacks |-> {}]>>
        /\ f.yielded = f.returned
        /\ f.emitted = f.returned
====
